---- MODULE Spec2Model ----
(***************************************************************************)
(* Model of the CSV ingestion pipeline (services/csv_importer.py,          *)
(* services/database.py) and of the window (ui/main_window_ui.py: the SQL  *)
(* query builder, the queries it runs, and the event handlers) of dgt-app. *)
(*                                                                         *)
(* Text is modelled as a sequence of one-character strings, so that        *)
(* sanitizing, substring search, integer parsing and the file-name regex   *)
(* are computed character by character as the Python code computes them.   *)
(***************************************************************************)
EXTENDS Integers, Sequences, FiniteSets, TLC

VARIABLES
    tableColumns,     \* PRAGMA table_info("exams"): the columns of the exams table, in order
    exams,            \* the records of the exams table, in insertion order
    importedPeriods,  \* the rows of imported_periods, <<year, month>>, as inserted
    ret,              \* observation of the last import_csv call
    calls,            \* the number of import_csv calls so far
    ui,               \* the filter widgets and MainWindow.standard_columns
    built,            \* observation of the last _build_query call
    view,             \* the QSqlQueryModel (fields, rows) and MainWindow.current_columns
    collect           \* the frame of _collect_table_data, while an export runs

vars == <<tableColumns, exams, importedPeriods, ret, calls, ui, built, view, collect>>

-----------------------------------------------------------------------------
(* Text helpers *)

\* An ASCII string literal as a sequence of one-character strings.
Chars(s) == [i \in 1..Len(s) |-> SubSeq(s, i, i)]

\* Python None, as a value comparable with texts.
None == <<"<None>">>

UpperAscii == Chars("ABCDEFGHIJKLMNOPQRSTUVWXYZ")
LowerAscii == Chars("abcdefghijklmnopqrstuvwxyz")
Digits == Chars("0123456789")
Whitespace == {" ", "\t"}

Range(s) == {s[i] : i \in DOMAIN s}

DigitChars == Range(Digits)

IsDigit(c) == c \in DigitChars

DigitValue(c) == (CHOOSE i \in DOMAIN Digits : Digits[i] = c) - 1

\* Non-ASCII letters of the modelled alphabet: upper case, and their lower case.
UpperAccented == <<"Á", "É", "Í", "Ó", "Ú", "Ñ", "Ã">>
LowerAccented == <<"á", "é", "í", "ó", "ú", "ñ", "ã">>

\* str.lower() on one character.
LowerChar(c) ==
    IF \E i \in DOMAIN UpperAscii : UpperAscii[i] = c
    THEN LowerAscii[CHOOSE i \in DOMAIN UpperAscii : UpperAscii[i] = c]
    ELSE IF \E i \in DOMAIN UpperAccented : UpperAccented[i] = c
    THEN LowerAccented[CHOOSE i \in DOMAIN UpperAccented : UpperAccented[i] = c]
    ELSE c

Lower(t) == [i \in 1..Len(t) |-> LowerChar(t[i])]

\* The regex class \w of Python 3 on str: Unicode alphanumerics and the underscore.
WordChars ==
    Range(UpperAscii) \cup Range(LowerAscii) \cup Range(Digits)
    \cup Range(UpperAccented) \cup Range(LowerAccented) \cup {"_"}

IsWordChar(c) == c \in WordChars

RECURSIVE LStrip(_, _)
LStrip(t, cs) == IF t # <<>> /\ Head(t) \in cs THEN LStrip(Tail(t), cs) ELSE t

RECURSIVE RStrip(_, _)
RStrip(t, cs) ==
    IF t # <<>> /\ t[Len(t)] \in cs THEN RStrip(SubSeq(t, 1, Len(t) - 1), cs) ELSE t

\* str.strip() and str.strip(chars).
StripChars(t, cs) == RStrip(LStrip(t, cs), cs)
Strip(t) == StripChars(t, Whitespace)

\* "pat in key": substring test.
Contains(key, pat) ==
    \E i \in 1..(Len(key) - Len(pat) + 1) : SubSeq(key, i, i + Len(pat) - 1) = pat

-----------------------------------------------------------------------------
(* services/database.py *)

\* The five replace() calls of sanitize_column.
FoldAccent(c) ==
    CASE c = "á" -> "a"
      [] c = "é" -> "e"
      [] c = "í" -> "i"
      [] c = "ó" -> "o"
      [] c = "ú" -> "u"
      [] OTHER -> c

\* re.sub(r"[^\w]+", "_", t): every maximal run of non-word characters becomes one "_".
RECURSIVE SubNonWord(_, _)
SubNonWord(t, inRun) ==
    IF t = <<>> THEN <<>>
    ELSE IF IsWordChar(Head(t)) THEN <<Head(t)>> \o SubNonWord(Tail(t), FALSE)
    ELSE IF inRun THEN SubNonWord(Tail(t), TRUE)
    ELSE <<"_">> \o SubNonWord(Tail(t), TRUE)

\* re.sub(r"_+", "_", t).
RECURSIVE CollapseUnderscores(_, _)
CollapseUnderscores(t, inRun) ==
    IF t = <<>> THEN <<>>
    ELSE IF Head(t) # "_" THEN <<Head(t)>> \o CollapseUnderscores(Tail(t), FALSE)
    ELSE IF inRun THEN CollapseUnderscores(Tail(t), TRUE)
    ELSE <<"_">> \o CollapseUnderscores(Tail(t), TRUE)

sanitize_column(name) ==
    LET lowered == Lower(Strip(name))
        folded == [i \in 1..Len(lowered) |-> FoldAccent(lowered[i])]
        cleaned == StripChars(CollapseUnderscores(SubNonWord(folded, FALSE), FALSE), {"_"})
        nonEmpty == IF cleaned = <<>> THEN Chars("col") ELSE cleaned
    IN IF IsDigit(nonEmpty[1]) THEN Chars("c_") \o nonEmpty ELSE nonEmpty

\* The roles of find_standard_columns with their patterns, in the order tried.
Roles ==
    <<"month", "year", "province", "exam_center", "exam_type", "driving_school",
      "permit", "num_aptos", "num_no_aptos">>

RolePatterns ==
    [month |-> <<Chars("mes"), Chars("month")>>,
     year |-> <<Chars("anyo"), Chars("anio"), <<"a", "ñ", "o">>, Chars("year")>>,
     province |-> <<Chars("desc_provincia"), Chars("prov"), Chars("provincia")>>,
     exam_center |-> <<Chars("centro_examen"), Chars("exam_center"), Chars("centro")>>,
     exam_type |-> <<Chars("tipo_examen"), Chars("exam_type"), Chars("prueba"), Chars("tipo")>>,
     driving_school |-> <<Chars("nombre_autoescuela"), Chars("autoescuela"),
                          Chars("driving_school"), Chars("escuela")>>,
     permit |-> <<Chars("nombre_permiso"), Chars("permiso")>>,
     num_aptos |-> <<Chars("num_aptos")>>,
     num_no_aptos |-> <<Chars("num_no_aptos")>>]

\* pick(patterns): the first column, in column order, containing the first pattern
\* that any column contains; None when no pattern is contained in any column.
RECURSIVE pick(_, _)
pick(cols, patterns) ==
    IF patterns = <<>> THEN None
    ELSE LET hits == {i \in 1..Len(cols) : Contains(Lower(cols[i]), Head(patterns))}
         IN IF hits # {}
            THEN cols[CHOOSE i \in hits : \A j \in hits : i <= j]
            ELSE pick(cols, Tail(patterns))

find_standard_columns(cols) == [r \in Range(Roles) |-> pick(cols, RolePatterns[r])]

-----------------------------------------------------------------------------
(* Python dict: a sequence of <<key, value>> pairs with distinct keys, in
   insertion order. *)

DictKeys(d) == [i \in 1..Len(d) |-> d[i][1]]

DictHas(d, k) == \E i \in 1..Len(d) : d[i][1] = k

\* d.get(k, default)
DictGet(d, k, default) ==
    IF DictHas(d, k) THEN d[CHOOSE i \in 1..Len(d) : d[i][1] = k][2] ELSE default

\* d[k] = v: an existing key keeps its position and takes the new value.
DictSet(d, k, v) ==
    IF DictHas(d, k)
    THEN [i \in 1..Len(d) |-> IF d[i][1] = k THEN <<k, v>> ELSE d[i]]
    ELSE Append(d, <<k, v>>)

\* dict(pairs) and dict comprehensions: later pairs overwrite earlier ones.
RECURSIVE DictFrom(_, _)
DictFrom(pairs, acc) ==
    IF pairs = <<>> THEN acc
    ELSE DictFrom(Tail(pairs), DictSet(acc, Head(pairs)[1], Head(pairs)[2]))

FromPairs(pairs) == DictFrom(pairs, <<>>)

-----------------------------------------------------------------------------
(* Periods *)

\* str(value): None prints as "None".
Str(v) == IF v = None THEN Chars("None") ELSE v

RECURSIVE DigitsValue(_, _)
DigitsValue(t, acc) ==
    IF t = <<>> THEN acc ELSE DigitsValue(Tail(t), 10 * acc + DigitValue(Head(t)))

\* int(text.strip()): [ok |-> FALSE] stands for ValueError.  An optional sign,
\* then decimal digits only.
ParseInt(text) ==
    LET s == Strip(text)
        signed == s # <<>> /\ Head(s) \in {"+", "-"}
        body == IF signed THEN Tail(s) ELSE s
    IN IF body # <<>> /\ \A i \in 1..Len(body) : IsDigit(body[i])
       THEN [ok |-> TRUE,
             val |-> IF signed /\ Head(s) = "-"
                     THEN 0 - DigitsValue(body, 0) ELSE DigitsValue(body, 0)]
       ELSE [ok |-> FALSE, val |-> 0]

PeriodLess(p, q) == p[1] < q[1] \/ (p[1] = q[1] /\ p[2] < q[2])

\* sorted(set of periods)
RECURSIVE SortedPeriods(_)
SortedPeriods(S) ==
    IF S = {} THEN <<>>
    ELSE LET least == CHOOSE p \in S : \A q \in S : p = q \/ PeriodLess(p, q)
         IN <<least>> \o SortedPeriods(S \ {least})

\* One match attempt of (20\d{2}).?([01]?\d) at position i of name: the
\* backtracking order of the regex engine is: the optional separator taken,
\* then not taken; inside each, the optional [01] taken, then not taken.
RegexMatchAt(name, i) ==
    LET n == Len(name)
        yearOk == /\ i + 3 <= n
                  /\ name[i] = "2" /\ name[i + 1] = "0"
                  /\ IsDigit(name[i + 2]) /\ IsDigit(name[i + 3])
        p == i + 4
        Two(q) == q + 1 <= n /\ name[q] \in {"0", "1"} /\ IsDigit(name[q + 1])
        One(q) == q <= n /\ IsDigit(name[q])
        sepOk == p <= n /\ name[p] # "\n"
        year == SubSeq(name, i, i + 3)
    IN IF ~yearOk THEN [ok |-> FALSE]
       ELSE IF sepOk /\ Two(p + 1)
            THEN [ok |-> TRUE, year |-> year, month |-> SubSeq(name, p + 1, p + 2), end |-> p + 3]
       ELSE IF sepOk /\ One(p + 1)
            THEN [ok |-> TRUE, year |-> year, month |-> SubSeq(name, p + 1, p + 1), end |-> p + 2]
       ELSE IF Two(p)
            THEN [ok |-> TRUE, year |-> year, month |-> SubSeq(name, p, p + 1), end |-> p + 2]
       ELSE IF One(p)
            THEN [ok |-> TRUE, year |-> year, month |-> SubSeq(name, p, p), end |-> p + 1]
       ELSE [ok |-> FALSE]

\* re.findall: the non-overlapping matches, left to right.
RECURSIVE RegexFindAll(_, _)
RegexFindAll(name, i) ==
    IF i > Len(name) THEN <<>>
    ELSE LET m == RegexMatchAt(name, i)
         IN IF m.ok THEN <<<<m.year, m.month>>>> \o RegexFindAll(name, m.end)
            ELSE RegexFindAll(name, i + 1)

RECURSIVE FilterMonths(_)
FilterMonths(matches) ==
    IF matches = <<>> THEN <<>>
    ELSE LET year == ParseInt(Head(matches)[1]).val
             month == ParseInt(Head(matches)[2]).val
         IN (IF 1 <= month /\ month <= 12 THEN <<<<year, month>>>> ELSE <<>>)
            \o FilterMonths(Tail(matches))

\* name is os.path.basename(path).
_extract_periods_from_filename(name) == FilterMonths(RegexFindAll(name, 1))

_parse_row_period(row, year_key, month_key) ==
    IF year_key = None \/ year_key = <<>> \/ month_key = None \/ month_key = <<>>
    THEN None
    ELSE LET year == ParseInt(Str(DictGet(row, year_key, <<>>)))
             month == ParseInt(Str(DictGet(row, month_key, <<>>)))
         IN IF ~year.ok \/ ~month.ok THEN None
            ELSE IF 1 <= month.val /\ month.val <= 12 THEN <<year.val, month.val>>
            ELSE None

_extract_periods_from_rows(rows, mapping) ==
    LET year_col == mapping["year"]
        month_col == mapping["month"]
        Year(row) == ParseInt(Str(DictGet(row, year_col, <<>>)))
        Month(row) == ParseInt(Str(DictGet(row, month_col, <<>>)))
    IN IF year_col = None \/ month_col = None THEN <<>>
       ELSE SortedPeriods({<<Year(rows[i]).val, Month(rows[i]).val>> :
                             i \in {j \in 1..Len(rows) :
                                      /\ Year(rows[j]).ok /\ Month(rows[j]).ok
                                      /\ 1 <= Month(rows[j]).val /\ Month(rows[j]).val <= 12}})

\* _load_imported_periods: the registry rows, read back as a set of integer pairs.
_load_imported_periods(registry) == {<<p[1], p[2]>> : p \in Range(registry)}

\* INSERT OR IGNORE as it would be without the primary key on (year, month).
InsertAlways(table, pair) == Append(table, pair)

\* INSERT OR IGNORE INTO imported_periods: a pair that is already a row of the
\* table conflicts with PRIMARY KEY (year, month) and is ignored, without error.
InsertOrIgnore(table, pair) ==
    IF pair \in Range(table) THEN table ELSE Append(table, pair)

\* register_imported_periods: one INSERT OR IGNORE per pair, in order.
RECURSIVE register_imported_periods(_, _)
register_imported_periods(registry, periods) ==
    IF periods = <<>> THEN registry
    ELSE register_imported_periods(InsertOrIgnore(registry, Head(periods)), Tail(periods))

\* ensure_columns: ALTER TABLE ... ADD COLUMN for every desired name that is not an
\* existing column and not "id"; adding a name a second time fails and changes
\* nothing.  The result is the table's column list afterwards.
RECURSIVE AddColumns(_, _)
AddColumns(existing, to_add) ==
    IF to_add = <<>> THEN existing
    ELSE AddColumns(IF Head(to_add) \in Range(existing) THEN existing
                    ELSE Append(existing, Head(to_add)),
                    Tail(to_add))

\* ensure_columns as it would be if the table were rebuilt from the desired names.
EnsureColumnsRebuild(existing, columns) == <<Chars("id")>> \o columns

ensure_columns(existing, columns) ==
    LET to_add == SelectSeq(columns, LAMBDA col : col \notin Range(existing) /\ col # Chars("id"))
    IN IF to_add = <<>> THEN existing ELSE AddColumns(existing, to_add)

-----------------------------------------------------------------------------
(* csv.DictReader *)

\* The value csv.DictReader stores under the key None for a row longer than the header.
RestList == <<"<list>">>

Min(a, b) == IF a <= b THEN a ELSE b

\* One row of DictReader: dict(zip(fieldnames, fields)); the fields beyond the
\* header go under the key None, the header names beyond the fields get None.
DictReaderRow(fieldnames, fields) ==
    LET lf == Len(fieldnames)
        lr == Len(fields)
        zipped == FromPairs([i \in 1..Min(lf, lr) |-> <<fieldnames[i], fields[i]>>])
    IN IF lf < lr THEN DictSet(zipped, None, RestList)
       ELSE DictFrom([i \in 1..(lf - lr) |-> <<fieldnames[lr + i], None>>], zipped)

DictReaderRows(fieldnames, lines) ==
    [i \in 1..Len(lines) |-> DictReaderRow(fieldnames, lines[i])]

-----------------------------------------------------------------------------
(* services/csv_importer.py: _insert_rows *)

\* ExecLoop as it would be if a failed exec() ended the batch.
RECURSIVE ExecLoopStop(_, _, _)
ExecLoopStop(total, idx, ok) ==
    IF idx > total THEN <<>>
    ELSE IF idx \in ok THEN <<TRUE>> \o ExecLoopStop(total, idx + 1, ok)
    ELSE <<FALSE>>

\* The loop over the batch: one query.exec() per row, in order.  ok is the set of
\* batch positions whose exec() succeeds (decided by the store).  The result
\* holds one entry per row attempted.
RECURSIVE ExecLoop(_, _, _)
ExecLoop(total, idx, ok) ==
    IF idx > total THEN <<>>
    ELSE <<idx \in ok>> \o ExecLoop(total, idx + 1, ok)

\* The record an INSERT with the given column list and bound values creates: a
\* column named twice takes its first value; unnamed columns stay NULL (absent).
InsertedRecord(columns, values) ==
    LET first == SelectSeq([i \in 1..Len(columns) |-> i],
                           LAMBDA i : \A j \in 1..(i - 1) : columns[j] # columns[i])
    IN [k \in 1..Len(first) |-> <<columns[first[k]], values[first[k]]>>]

\* What survives db.commit() / db.rollback(): with a transaction open, the rows
\* executed persist only if the commit succeeds; without one, every executed
\* row is committed on its own.
Persisted(use_tx, commit_ok, records) ==
    IF use_tx /\ ~commit_ok THEN <<>> ELSE records

\* The value _insert_rows returns.
InsertCount(results) == Cardinality({i \in 1..Len(results) : results[i]})

\* env.tx: db.transaction() succeeds; env.commit: db.commit() succeeds;
\* env.ok: the batch positions whose exec() succeeds.
_insert_rows(rows, mapping, env) ==
    IF rows = <<>>
    THEN [raised |-> FALSE, count |-> 0, results |-> <<>>, use_tx |-> FALSE,
          records |-> <<>>]
    ELSE LET keys == DictKeys(rows[1])
         IN IF \E i \in 1..Len(keys) : ~DictHas(mapping, keys[i])
            THEN \* mapping[key] raises KeyError
                 [raised |-> TRUE, count |-> 0, results |-> <<>>, use_tx |-> FALSE,
                  records |-> <<>>]
            ELSE LET columns == [i \in 1..Len(keys) |-> DictGet(mapping, keys[i], None)]
                     results == ExecLoop(Len(rows), 1, env.ok)
                     Values(row) == [i \in 1..Len(keys) |-> DictGet(row, keys[i], None)]
                     done == SelectSeq([i \in 1..Len(results) |-> i],
                                       LAMBDA i : results[i])
                     records == [k \in 1..Len(done) |->
                                   InsertedRecord(columns, Values(rows[done[k]]))]
                 IN [raised |-> FALSE,
                     count |-> InsertCount(results),
                     results |-> results,
                     use_tx |-> env.tx,
                     records |-> Persisted(env.tx, env.commit, records)]

-----------------------------------------------------------------------------
(* services/csv_importer.py: import_csv *)

\* NoHeader as it would be if the missing header row went unnoticed.
NoHeaderNever(fieldnames) == FALSE

\* "if not reader.fieldnames": the file has no header row.
NoHeader(fieldnames) == fieldnames = <<>>

\* RowSkipped as it would be if every row with a period were taken as imported.
RowSkippedAny(period, imported_periods) == period # None

\* The per-row dedup test: "if period and period in imported_periods: continue".
RowSkipped(period, imported_periods) == period # None /\ period \in imported_periods

\* The whole-file dedup test of the fallback path.
FileSkipped(periods, imported_periods) ==
    periods # <<>> /\ \E i \in 1..Len(periods) : periods[i] \in imported_periods

\* The result of a call that returns without touching rows or registry.
Returned(inserted, periods, path, columns) ==
    [outcome |-> "returned", inserted |-> inserted, periods |-> periods, path |-> path,
     called |-> FALSE, handed |-> <<>>, results |-> <<>>, use_tx |-> FALSE,
     columns |-> columns, records |-> <<>>, registered |-> <<>>]

\* The result of a call that went through _insert_rows: the KeyError of
\* _insert_rows is not caught by import_csv and reaches the caller, before
\* anything is registered.
AfterInsert(ins, periods, path, handed, columns, to_register) ==
    [outcome |-> IF ins.raised THEN "KeyError" ELSE "returned",
     inserted |-> ins.count, periods |-> periods, path |-> path,
     called |-> TRUE, handed |-> handed, results |-> ins.results, use_tx |-> ins.use_tx,
     columns |-> columns, records |-> ins.records,
     registered |-> IF ins.raised THEN <<>> ELSE to_register]

\* The part of the try block that depends on the file alone, for one decoding of
\* it: fieldnames is the header row as decoded, lines the data rows.
ReadFile(name, fieldnames, lines) ==
    LET original_headers == [i \in 1..Len(fieldnames) |-> Strip(fieldnames[i])]
        sanitized_headers ==
            [i \in 1..Len(fieldnames) |-> sanitize_column(original_headers[i])]
        mapping == FromPairs([i \in 1..Len(fieldnames) |->
                                <<original_headers[i], sanitized_headers[i]>>])
        rows == DictReaderRows(fieldnames, lines)
        standard_mapping == find_standard_columns(sanitized_headers)
        rows_sanitized ==
            [i \in 1..Len(rows) |->
               FromPairs([k \in 1..Len(rows[i]) |->
                            <<DictGet(mapping, rows[i][k][1], rows[i][k][1]), rows[i][k][2]>>])]
        from_rows == _extract_periods_from_rows(rows_sanitized, standard_mapping)
        year_col == standard_mapping["year"]
        month_col == standard_mapping["month"]
        reverse_mapping ==
            FromPairs([i \in 1..Len(mapping) |-> <<mapping[i][2], mapping[i][1]>>])
        year_key == DictGet(reverse_mapping, year_col, year_col)
        month_key == DictGet(reverse_mapping, month_col, month_col)
    IN [no_header |-> NoHeader(fieldnames),
        sanitized_headers |-> sanitized_headers,
        mapping |-> mapping,
        rows |-> rows,
        periods |-> IF from_rows = <<>> THEN _extract_periods_from_filename(name)
                    ELSE from_rows,
        per_row |-> year_col # None /\ month_col # None,
        row_period |-> [i \in 1..Len(rows) |->
                          _parse_row_period(rows[i], year_key, month_key)]]

\* The rest of the try block: schema, dedup against the registry, insertion.
\* The rows import_csv hands to _insert_rows, as positions in the file: on the
\* per-row path the rows that are not skipped, on the whole-file path all rows
\* or, the file being skipped, none.
Batch(read, imported_periods) ==
    IF read.no_header THEN <<>>
    ELSE IF read.per_row
         THEN SelectSeq([i \in 1..Len(read.rows) |-> i],
                        LAMBDA i : ~RowSkipped(read.row_period[i], imported_periods))
         ELSE IF FileSkipped(read.periods, imported_periods) THEN <<>>
              ELSE [i \in 1..Len(read.rows) |-> i]

ImportDecoded(read, table_columns, registry, env) ==
    IF read.no_header THEN Returned(0, <<>>, "no_header", table_columns)
    ELSE
    LET mapping == read.mapping
        rows == read.rows
        periods == read.periods
        columns == ensure_columns(table_columns, read.sanitized_headers)
        imported_periods == _load_imported_periods(registry)
        new_idx == Batch(read, imported_periods)
        new_rows == [k \in 1..Len(new_idx) |-> rows[new_idx[k]]]
    IN IF read.per_row
       THEN LET new_periods == {read.row_period[new_idx[k]] : k \in 1..Len(new_idx)} \ {None}
            IN IF new_rows = <<>> THEN Returned(0, periods, "per_row", columns)
               ELSE AfterInsert(_insert_rows(new_rows, mapping, env), periods, "per_row",
                                new_idx, columns, SortedPeriods(new_periods))
       ELSE IF FileSkipped(periods, imported_periods)
            THEN Returned(0, periods, "whole_file", columns)
            ELSE AfterInsert(_insert_rows(new_rows, mapping, env), periods, "whole_file",
                             new_idx, columns, periods)

\* The decoding of the file that import_csv ends up using.
Decoded(file) == IF file.utf8 = "ok" THEN file.read["utf8"] ELSE file.read["latin1"]

\* import_csv: the utf-8-sig attempt, then the latin-1 attempt.  file.utf8 tells
\* where the utf-8-sig decoding fails: nowhere ("ok"), in the first read, before
\* the header is known ("fail_header"), or while the data rows are read, after
\* ensure_columns ran on the header as utf-8-sig decoded it ("fail_rows").
\* latin-1 decodes every byte sequence, so the second attempt never fails.
\* file.read holds ReadFile of the file under each of the two decodings.
import_csv(table_columns, registry, file, env) ==
    LET \* utf-8-sig decodes the header row and fails on a later line
        fails_late == file.utf8 \notin {"ok", "fail_header"}
        columns == IF fails_late /\ ~file.read["utf8"].no_header
                   THEN ensure_columns(table_columns, file.read["utf8"].sanitized_headers)
                   ELSE table_columns
    IN IF fails_late /\ file.read["utf8"].no_header
       THEN Returned(0, <<>>, "no_header", table_columns)
       ELSE ImportDecoded(Decoded(file), columns, registry, env)

-----------------------------------------------------------------------------
(* The files offered to import_csv.  name is the base name of the path, header
   the header row as utf-8-sig decodes it (<<>>: the file has no header row),
   latin1_header the header row as latin-1 decodes it, rows the data rows. *)

File(name, utf8, header, latin1_header, rows) ==
    [name |-> Chars(name), utf8 |-> utf8, header |-> header,
     latin1_header |-> latin1_header, rows |-> rows]

Utf8File(name, header, rows) == File(name, "ok", header, header, rows)

Anyo == <<"A", "ñ", "o">>
AnyoMojibake == <<"A", "Ã", "±", "o">>
YearMonth == <<Anyo, Chars("Mes")>>
Line2(a, b) == <<Chars(a), Chars(b)>>

FileList ==
    << \* the scenario of the specification: three rows, periods (2024,3) and (2024,4)
       Utf8File("examenes.csv",
                <<Anyo, Chars("Mes"), Chars("Provincia"), Chars("Num_Aptos"),
                  Chars("Num_No_Aptos")>>,
                << <<Chars("2024"), Chars("3"), Chars("Madrid"), Chars("10"), Chars("2")>>,
                   <<Chars("2024"), Chars("3"), Chars("Madrid"), Chars("5"), Chars("1")>>,
                   <<Chars("2024"), Chars("4"), Chars("Madrid"), Chars("7"), Chars("0")>> >>),
       \* a latin-1 file (utf-8-sig fails on the header row): one good period, and
       \* a month out of range
       File("mixto.csv", "fail_header", YearMonth, YearMonth,
            <<Line2(" 2024 ", "5"), Line2("2024", "13")>>),
       \* a header with surrounding whitespace
       Utf8File("espacios.csv", <<<<" ">> \o Anyo \o <<" ">>, Chars("Mes")>>,
                <<Line2("2024", "4")>>),
       \* the first row has more fields than the header
       Utf8File("largo.csv", YearMonth,
                << <<Chars("2024"), Chars("3"), Chars("x")>> >>),
       \* a short first row whose year is no integer, then a row with more fields
       \* than the header
       Utf8File("corto.csv", YearMonth,
                << <<Chars("abc")>>, <<Chars("2024"), Chars("3"), Chars("x")>> >>),
       \* no year/month columns: the periods come from the file name
       Utf8File("exams_2024-03_2024-04.csv", <<Chars("Provincia"), Chars("Num_Aptos")>>,
                <<Line2("Madrid", "10")>>),
       \* a header row and no data rows, no year/month columns
       Utf8File("exams_2024-05.csv", <<Chars("Provincia")>>, <<>>),
       \* an empty file: no header row
       Utf8File("2024-03.csv", <<>>, <<>>),
       \* two headers that sanitize to the same name
       Utf8File("doble.csv", <<Chars("Mes"), Chars("MES"), Anyo>>,
                << <<Chars("3"), Chars("4"), Chars("2024")>> >>),
       \* utf-8-sig decodes the header and fails further down the file
       File("mezcla_2024-05.csv", "fail_rows", YearMonth, <<AnyoMojibake, Chars("Mes")>>,
            <<Line2("2024", "3")>>),
       \* no year/month columns; the file name mentions 2024-04, 2024-03 and
       \* 2024-04 again
       Utf8File("rep_2024-04_2024-03_2024-04.csv", <<Chars("Provincia")>>,
                << <<Chars("Madrid")>> >>) >>

Encodings == {"utf8", "latin1"}

\* Each file with what the reader makes of it under each of the two encodings.
Files ==
    [f \in DOMAIN FileList |->
       [name |-> FileList[f].name, utf8 |-> FileList[f].utf8,
        header |-> FileList[f].header, rows |-> FileList[f].rows,
        read |-> [encoding \in Encodings |->
                    ReadFile(FileList[f].name,
                             IF encoding = "utf8" THEN FileList[f].header
                             ELSE FileList[f].latin1_header,
                             FileList[f].rows)]]]

\* The model follows the store through at most MaxCalls calls of import_csv.
MaxCalls == 3

\* What the store decides during one call, for a batch of n rows handed to
\* _insert_rows: db.transaction() succeeds, db.commit() succeeds (asked only with
\* a transaction open), and the batch positions whose exec() succeeds.
Envs(n) ==
    {e \in [tx : BOOLEAN, commit : BOOLEAN, ok : SUBSET (1..n)] :
       /\ ~e.tx => e.commit
       /\ n = 0 => e.tx}

AllOk == [tx |-> TRUE, commit |-> TRUE, ok |-> {}]

\* The number of rows import_csv hands to _insert_rows in the current store.
BatchSize(f) == Len(Batch(Decoded(Files[f]), _load_imported_periods(importedPeriods)))

NoCall == [file |-> 0]

-----------------------------------------------------------------------------
(* ui/main_window_ui.py: the query builder.  A query is kept as its parts: the
   select list, the WHERE clauses in the order they are joined with AND, the
   bind values in the order they are appended, GROUP BY (grouped: the text has
   a GROUP BY part; group_by: the columns listed in it), ORDER BY and LIMIT. *)

IntParam(n) == [t |-> "int", v |-> n]
TextParam(text) == [t |-> "text", v |-> text]

\* The check boxes of _build_columns_box, in order.
ColumnKeys ==
    <<"year", "month", "province", "exam_center", "exam_type", "driving_school",
      "permit", "num_aptos", "num_no_aptos">>

GroupLabels == {"None", "Year", "Month and Year", "Province", "Exam center", "Driving school"}

\* The filters list of _build_query: role and line edit, in order.
TextFilters ==
    <<"province", "exam_center", "exam_type", "driving_school", "permit">>

Resolved(cols) == SelectSeq(cols, LAMBDA c : c # None)

_selected_columns(w, table_columns) ==
    LET checked == SelectSeq(ColumnKeys, LAMBDA key : key \in w.column_checks)
        selected == Resolved([i \in 1..Len(checked) |-> w.standard_columns[checked[i]]])
        standard == Resolved([i \in 1..Len(Roles) |-> w.standard_columns[Roles[i]]])
    IN IF selected # <<>> THEN selected
       ELSE IF standard # <<>> THEN standard
       ELSE table_columns

_group_columns(w, group_label) ==
    CASE group_label = "Year" -> Resolved(<<w.standard_columns["year"]>>)
      [] group_label = "Month and Year" ->
           Resolved(<<w.standard_columns["year"], w.standard_columns["month"]>>)
      [] group_label = "Province" -> Resolved(<<w.standard_columns["province"]>>)
      [] group_label = "Exam center" -> Resolved(<<w.standard_columns["exam_center"]>>)
      [] group_label = "Driving school" -> Resolved(<<w.standard_columns["driving_school"]>>)
      [] OTHER -> <<>>

\* FilterActive as it would be if a blank value were bound as an empty-string match.
FilterActiveAnyValue(col, value) == col # None

\* "if col and value" of the filters loop.
FilterActive(col, value) == col # None /\ value # <<>>

\* The conditions under which the two range clauses are appended.
FromRangeActive(month_col, year_col, from_year, from_month) ==
    month_col # None /\ year_col # None /\ from_year # 0 /\ from_month # <<>>

ToRangeActive(month_col, year_col, to_year, to_month) ==
    month_col # None /\ year_col # None /\ to_year # 0 /\ to_month # <<>>

\* params.extend([from_year, from_year, from_month]); the "to" clause binds alike.
RangeParams(year, month) == <<IntParam(year), IntParam(year), TextParam(month)>>

_build_query(w, table_columns, order_by, order_dir) ==
    LET select_columns == _selected_columns(w, table_columns)
        group == w.group_by
        std == w.standard_columns
        aptos_col == std["num_aptos"]
        no_aptos_col == std["num_no_aptos"]
        group_columns == _group_columns(w, group)
        metrics ==
            (IF aptos_col # None
             THEN <<[kind |-> "sum", col |-> aptos_col, as |-> "num_aptos"]>> ELSE <<>>)
            \o (IF no_aptos_col # None
                THEN <<[kind |-> "sum", col |-> no_aptos_col, as |-> "num_no_aptos"]>>
                ELSE <<>>)
            \o (IF aptos_col # None /\ no_aptos_col # None
                THEN <<[kind |-> "sum_sum", col |-> aptos_col, col2 |-> no_aptos_col,
                        as |-> "total_exams"]>>
                ELSE <<[kind |-> "count", as |-> "total_exams"]>>)
        Cols(cs) == [i \in 1..Len(cs) |-> [kind |-> "col", col |-> cs[i]]]
        select_sql ==
            IF group # "None" THEN Cols(group_columns) \o metrics
            ELSE IF select_columns # <<>> THEN Cols(select_columns)
            ELSE <<[kind |-> "star"]>>
        month_col == std["month"]
        year_col == std["year"]
        from_on == FromRangeActive(month_col, year_col, w.from_year, w.from_month)
        to_on == ToRangeActive(month_col, year_col, w.to_year, w.to_month)
        Value(i) == Strip(w.text[TextFilters[i]])
        active == SelectSeq([i \in 1..Len(TextFilters) |-> i],
                            LAMBDA i : FilterActive(std[TextFilters[i]], Value(i)))
        where_clauses ==
            (IF from_on THEN <<[kind |-> "from", year_col |-> year_col,
                                month_col |-> month_col]>> ELSE <<>>)
            \o (IF to_on THEN <<[kind |-> "to", year_col |-> year_col,
                                 month_col |-> month_col]>> ELSE <<>>)
            \o [k \in 1..Len(active) |-> [kind |-> "eq", col |-> std[TextFilters[active[k]]]]]
        params ==
            (IF from_on THEN RangeParams(w.from_year, w.from_month) ELSE <<>>)
            \o (IF to_on THEN RangeParams(w.to_year, w.to_month) ELSE <<>>)
            \o [k \in 1..Len(active) |-> TextParam(Strip(Value(active[k])))]
    IN [select |-> select_sql,
        where |-> where_clauses,
        params |-> params,
        grouped |-> group # "None",
        group_by |-> IF group # "None" THEN group_columns ELSE <<>>,
        order_by |-> order_by,
        order_dir |-> order_dir,
        limit |-> w.limit_input]

-----------------------------------------------------------------------------
(* What the built query means to SQLite.  A comparison is TRUE, FALSE or NULL,
   written "T", "F", "N"; a row is selected when every WHERE clause is "T". *)

And3(a, b) == IF a = "F" \/ b = "F" THEN "F" ELSE IF a = "N" \/ b = "N" THEN "N" ELSE "T"
Or3(a, b) == IF a = "T" \/ b = "T" THEN "T" ELSE IF a = "N" \/ b = "N" THEN "N" ELSE "F"
Bool3(b) == IF b THEN "T" ELSE "F"

RECURSIVE DigitPrefix(_)
DigitPrefix(t) ==
    IF t # <<>> /\ IsDigit(Head(t)) THEN <<Head(t)>> \o DigitPrefix(Tail(t)) ELSE <<>>

\* CAST(value AS INTEGER) of a TEXT or NULL column: NULL stays NULL; of a text,
\* leading blanks are skipped and the longest integer prefix is taken, 0 if none.
CastInteger(value) ==
    IF value = None THEN [null |-> TRUE, v |-> 0]
    ELSE LET s == LStrip(value, Whitespace)
             negative == s # <<>> /\ Head(s) = "-"
             body == IF s # <<>> /\ Head(s) \in {"+", "-"} THEN Tail(s) ELSE s
             n == DigitsValue(DigitPrefix(body), 0)
         IN [null |-> FALSE, v |-> IF negative THEN 0 - n ELSE n]

\* NUMERIC affinity applied to a bound value compared with a CAST(.. AS INTEGER):
\* an integer stays, a text that is an integer literal becomes that integer, any
\* other text stays a text, which sorts after every integer.
NumericAffinity(param) ==
    IF param.t = "int" THEN [num |-> TRUE, v |-> param.v]
    ELSE [num |-> ParseInt(param.v).ok, v |-> ParseInt(param.v).val]

Compare3(left, op, param) ==
    LET right == NumericAffinity(param)
    IN IF left.null THEN "N"
       ELSE IF ~right.num THEN Bool3(op \in {"<", "<="})
       ELSE CASE op = ">" -> Bool3(left.v > right.v)
              [] op = ">=" -> Bool3(left.v >= right.v)
              [] op = "<" -> Bool3(left.v < right.v)
              [] op = "<=" -> Bool3(left.v <= right.v)
              [] OTHER -> Bool3(left.v = right.v)

\* FromClause as it would be if year and month were compared independently.
FromClauseNaive(year, month, p) ==
    And3(Compare3(year, ">=", p[1]), Compare3(month, ">=", p[3]))

\* (CAST(year) > ? OR (CAST(year) = ? AND CAST(month) >= ?))
FromClause(year, month, p) ==
    Or3(Compare3(year, ">", p[1]),
        And3(Compare3(year, "=", p[2]), Compare3(month, ">=", p[3])))

\* (CAST(year) < ? OR (CAST(year) = ? AND CAST(month) <= ?))
ToClause(year, month, p) ==
    Or3(Compare3(year, "<", p[1]),
        And3(Compare3(year, "=", p[2]), Compare3(month, "<=", p[3])))

\* TRIM("col") = ?: SQLite's TRIM removes spaces; text compares with text.
EqClause(value, p) ==
    IF value = None THEN "N"
    ELSE Bool3(p[1].t = "text" /\ StripChars(value, {" "}) = p[1].v)

Placeholders(clause) == IF clause.kind = "eq" THEN 1 ELSE 3

ClauseHolds(clause, p, row) ==
    CASE clause.kind = "from" ->
           FromClause(CastInteger(DictGet(row, clause.year_col, None)),
                      CastInteger(DictGet(row, clause.month_col, None)), p)
      [] clause.kind = "to" ->
           ToClause(CastInteger(DictGet(row, clause.year_col, None)),
                    CastInteger(DictGet(row, clause.month_col, None)), p)
      [] OTHER -> EqClause(DictGet(row, clause.col, None), p)

\* The row passes the WHERE part of the query; the bind values are taken by the
\* placeholders in order.  A query with an unbound placeholder selects nothing.
RECURSIVE WhereHolds(_, _, _)
WhereHolds(clauses, params, row) ==
    IF clauses = <<>> THEN TRUE
    ELSE LET n == Placeholders(Head(clauses))
         IN /\ Len(params) >= n
            /\ ClauseHolds(Head(clauses), SubSeq(params, 1, n), row) = "T"
            /\ WhereHolds(Tail(clauses), SubSeq(params, n + 1, Len(params)), row)

-----------------------------------------------------------------------------
(* What SQLite returns for the built query, as QSqlQueryModel.setQuery takes it:
   the field names of the result and its rows.  A cell is the text the view
   shows for it, None for NULL.  The rows are in the order of the stored
   records (a group stands where its first record stands); ORDER BY is kept in
   the query and not applied to the rows. *)

RECURSIVE IntText(_)
IntText(n) ==
    IF n < 0 THEN <<"-">> \o IntText(0 - n)
    ELSE IF n < 10 THEN <<Digits[n + 1]>>
    ELSE IntText(n \div 10) \o <<Digits[(n % 10) + 1]>>

Cell(number) == IF number.null THEN None ELSE IntText(number.v)

\* SUM(CAST("col" AS INTEGER)) over the records of a group: NULLs are skipped,
\* and the sum of no value is NULL.
RECURSIVE SumCast(_, _)
SumCast(records, col) ==
    IF records = <<>> THEN [null |-> TRUE, v |-> 0]
    ELSE LET head == CastInteger(DictGet(Head(records), col, None))
             rest == SumCast(Tail(records), col)
         IN IF head.null THEN rest ELSE [null |-> FALSE, v |-> head.v + rest.v]

\* a + b of two sums: NULL when either is NULL.
Plus(a, b) == [null |-> a.null \/ b.null, v |-> a.v + b.v]

\* One cell of a grouped result row: a group-by column shows the value of the
\* group, an aggregate is computed over the records of the group.
GroupCell(item, records) ==
    CASE item.kind = "col" -> DictGet(records[1], item.col, None)
      [] item.kind = "sum" -> Cell(SumCast(records, item.col))
      [] item.kind = "sum_sum" ->
           Cell(Plus(SumCast(records, item.col), SumCast(records, item.col2)))
      [] OTHER -> IntText(Len(records))

\* The field names of the result: model.record().fieldName(i).
FieldNames(select, table_columns) ==
    IF Len(select) = 1 /\ select[1].kind = "star" THEN table_columns
    ELSE [i \in 1..Len(select) |->
            IF select[i].kind = "col" THEN select[i].col ELSE Chars(select[i].as)]

\* The one element of a singleton.
The(S) == CHOOSE x \in S : TRUE

\* The records the WHERE part selects, in stored order.
Matching(query, records) ==
    SelectSeq(records, LAMBDA r : WhereHolds(query.where, query.params, r))

\* The values of the GROUP BY columns in a record.
GroupKey(group_by, record) ==
    [i \in 1..Len(group_by) |-> DictGet(record, group_by[i], None)]

\* The keys of the groups, each where it first occurs in keys.
GroupKeys(keys) ==
    LET first == SelectSeq([i \in 1..Len(keys) |-> i],
                           LAMBDA i : \A j \in 1..(i - 1) : keys[j] # keys[i])
    IN [k \in 1..Len(first) |-> keys[first[k]]]

GroupRow(select, records) ==
    [c \in 1..Len(select) |-> GroupCell(select[c], records)]

\* One row per group of the matching records.
GroupedRows(query, matching) ==
    The({[k \in 1..Len(groups) |->
            The({GroupRow(query.select, members) :
                   members \in {SelectSeq(matching,
                                          LAMBDA r : GroupKey(query.group_by, r) = groups[k])}})] :
           groups \in {GroupKeys([i \in 1..Len(matching) |->
                                    GroupKey(query.group_by, matching[i])])}})

\* One row per matching record, with the selected columns.
PlainRows(fields, matching) ==
    [i \in 1..Len(matching) |->
       [c \in 1..Len(fields) |-> DictGet(matching[i], fields[c], None)]]

Limited(limit, rows) ==
    IF limit > 0 /\ Len(rows) > limit THEN SubSeq(rows, 1, limit) ELSE rows

\* A GROUP BY with no column after it is not a statement: prepare() fails,
\* exec() returns false and the model is left with no field and no row.
IsStatement(query) == ~(query.grouped /\ query.group_by = <<>>)

Execute(query, table_columns, records) ==
    IF ~IsStatement(query) THEN [ok |-> FALSE, fields |-> <<>>, rows |-> <<>>]
    ELSE The({[ok |-> TRUE,
               fields |-> fields,
               rows |-> The({Limited(query.limit, rows) :
                               rows \in {The({IF query.grouped
                                              THEN GroupedRows(query, matching)
                                              ELSE PlainRows(fields, matching) :
                                                matching \in {Matching(query, records)}})}})] :
                fields \in {FieldNames(query.select, table_columns)}})

-----------------------------------------------------------------------------
(* The window *)

\* The widgets as _build_filters and _build_columns_box leave them.
Widgets(standard_columns) ==
    [standard_columns |-> standard_columns,
     from_year |-> 0, from_month |-> <<>>, to_year |-> 0, to_month |-> <<>>,
     text |-> [r \in Range(TextFilters) |-> <<>>],
     group_by |-> "None", limit_input |-> 0,
     column_checks |-> Range(ColumnKeys)]

NoQuery == [call |-> "none"]

\* The model and current_columns as __init__ creates them, before any query.
NoView == [fields |-> <<>>, rows |-> <<>>, current_columns |-> <<>>]

\* No export is running.
Idle == [pc |-> "idle", row |-> 0, row_count |-> 0, column_count |-> 0, rows |-> <<>>]

\* query.prepare, addBindValue, query.exec and model.setQuery of the query built
\* from the widgets: the query with what the model holds afterwards.
RunQuery(w, table_columns, records, order_by, order_dir) ==
    The({[query |-> query, result |-> Execute(query, table_columns, records)] :
           query \in {_build_query(w, table_columns, order_by, order_dir)}})

\* Header rows of files imported in earlier sessions, which decide the columns
\* the exams table has when the window opens.
QueryTables ==
    << <<>>,
       <<Anyo, Chars("Mes"), Chars("Provincia"), Chars("Num_Aptos"), Chars("Num_No_Aptos")>>,
       <<Chars("Mes"), Chars("Provincia")>>,
       <<Chars("Anyo"), Chars("Mes"), Chars("Desc_Provincia"), Chars("Centro_Examen"),
         Chars("Tipo_Examen"), Chars("Nombre_Autoescuela"), Chars("Nombre_Permiso"),
         Chars("Num_Aptos"), Chars("Num_No_Aptos")>> >>

TableOf(headers) ==
    ensure_columns(<<Chars("id")>>, [i \in 1..Len(headers) |-> sanitize_column(headers[i])])

\* For each of them: the table's columns, and MainWindow.standard_columns as
\* __init__ computes it from them.
QueryWindows ==
    [t \in DOMAIN QueryTables |->
       [columns |-> TableOf(QueryTables[t]),
        standard_columns |-> find_standard_columns(TableOf(QueryTables[t]))]]

\* The values the user gives the widgets in the model.
FromYears == {0, 2023}
ToYears == {0, 2023, 2024}
FromMonths == {<<>>, Chars("6")}
ToMonths == {<<>>, Chars("6"), Chars("12")}
TextInputs ==
    [province : {<<>>, Chars(" Madrid ")},
     exam_center : {<<>>, Chars("Alcala")},
     exam_type : {<<>>, Chars("Teorico")},
     driving_school : {<<>>, Chars("Luna")},
     permit : {Chars("  "), Chars("B")}]
Limits == {0, 10}

-----------------------------------------------------------------------------
Init ==
    /\ tableColumns = <<Chars("id")>>
    /\ exams = <<>>
    /\ importedPeriods = <<>>
    /\ ret = NoCall
    /\ calls = 0
    /\ ui = Widgets(QueryWindows[1].standard_columns)
    /\ built = NoQuery
    /\ view = NoView
    /\ collect = Idle

\* One call import_csv(db, path): its effect on the store, and what the caller
\* sees of it.
ImportCall(f, env) ==
    /\ calls < MaxCalls
    /\ calls' = calls + 1
    /\ \E r \in {import_csv(tableColumns, importedPeriods, Files[f], env)} :
          /\ tableColumns' = r.columns
          /\ exams' = exams \o r.records
          /\ importedPeriods' = register_imported_periods(importedPeriods, r.registered)
          /\ ret' = [file |-> f, outcome |-> r.outcome, inserted |-> r.inserted,
                     periods |-> r.periods, path |-> r.path, called |-> r.called,
                     handed |-> r.handed, results |-> r.results, use_tx |-> r.use_tx,
                     commit_ok |-> env.commit]

\* import_csv called on its own, with no window to refresh.
ImportCsv(f, env) ==
    /\ ImportCall(f, env)
    /\ UNCHANGED <<ui, built, view, collect>>

Next ==
    \E f \in DOMAIN Files : \E n \in 0..Len(Files[f].rows) :
        /\ n = BatchSize(f)
        /\ \E env \in Envs(n) : ImportCsv(f, env)
Spec == Init /\ [][Next]_vars

\* The query builder on its own: the window is open on a store whose exams table
\* has the columns of earlier imports, and the user has set the widgets.
QueryInit ==
    /\ exams = <<>>
    /\ importedPeriods = <<>>
    /\ ret = NoCall
    /\ calls = 0
    /\ \E t \in DOMAIN QueryWindows :
         /\ tableColumns = QueryWindows[t].columns
         /\ \E fy \in FromYears, fm \in FromMonths, ty \in ToYears, tm \in ToMonths,
               text \in TextInputs, group \in GroupLabels, limit \in Limits :
              ui = [Widgets(QueryWindows[t].standard_columns) EXCEPT
                      !.from_year = fy, !.from_month = fm, !.to_year = ty,
                      !.to_month = tm, !.text = text, !.group_by = group,
                      !.limit_input = limit]
    /\ built = NoQuery
    /\ view = NoView
    /\ collect = Idle

\* What _apply_filters leaves in the window.
Applied(w, table_columns, records) ==
    The({[built |-> [call |-> "_apply_filters", query |-> r.query],
          view |-> [fields |-> r.result.fields, rows |-> r.result.rows,
                    current_columns |-> r.result.fields]] :
           r \in {RunQuery(w, table_columns, records, None, "ASC")}})

\* _apply_filters: builds the query from the widgets, runs it, hands it to the
\* model and takes current_columns from the fields of the model.
ApplyFilters ==
    /\ \E a \in {Applied(ui, tableColumns, exams)} :
          /\ built' = a.built
          /\ view' = a.view
    /\ UNCHANGED <<tableColumns, exams, importedPeriods, ret, calls, ui, collect>>

QueryNext == ApplyFilters

QuerySpec == QueryInit /\ [][QueryNext]_vars

-----------------------------------------------------------------------------
(* Claims about import_csv, checked under Spec *)

DecodedRead(f) == Decoded(Files[f])

RowCount(f) == Len(Files[f].rows)

\* The year and month columns resolve and every row carries a parseable period.
EveryRowHasPeriod(f) ==
    /\ DecodedRead(f).per_row
    /\ \A i \in 1..RowCount(f) : DecodedRead(f).row_period[i] # None

\* C1: when a file whose year and month columns resolve, and every row of which
\* carries a parseable period, is imported twice in succession, the second call
\* returns inserted count 0 with the period list of the first call, and the
\* number of exam records stays what it was after the first call.
C1_ReimportInsertsNothing ==
    [][(ret.file # 0 /\ ret'.file = ret.file /\ calls' = calls + 1
        /\ EveryRowHasPeriod(ret.file))
       => /\ ret'.outcome = "returned"
          /\ ret'.inserted = 0
          /\ ret'.periods = ret.periods
          /\ Len(exams') = Len(exams)]_vars

\* C2: on the per-row path a row is handed to the inserter if and only if its
\* period cannot be determined or is not in the registry as it was when the
\* import started; so a row without a period is handed over whatever the
\* registry holds.
C2_RowPartition ==
    [][(calls' = calls + 1 /\ ret'.path = "per_row")
       => \A i \in 1..RowCount(ret'.file) :
            LET period == DecodedRead(ret'.file).row_period[i]
            IN (i \in Range(ret'.handed))
               <=> (period = None \/ period \notin _load_imported_periods(importedPeriods))]_vars

\* A per-row import handed over a row without a period and skipped a row whose
\* period was registered.
C2_Witness ==
    /\ ret.file # 0
    /\ ret.path = "per_row"
    /\ ret.called
    /\ \E i \in Range(ret.handed) : DecodedRead(ret.file).row_period[i] = None
    /\ \E i \in 1..RowCount(ret.file) : i \notin Range(ret.handed)

\* C3: on the whole-file path the file is skipped, with zero rows inserted,
\* exactly when at least one period was extracted and every extracted period is
\* in the registry; if some extracted period is not registered, all rows of the
\* file are handed to the inserter.
C3_WholeFileSkippedIffAllRegistered ==
    [][(calls' = calls + 1 /\ ret'.path = "whole_file")
       => LET all_registered == /\ ret'.periods # <<>>
                                /\ Range(ret'.periods) \subseteq _load_imported_periods(importedPeriods)
          IN /\ (~ret'.called /\ ret'.inserted = 0) <=> all_registered
             /\ ~all_registered
                  => /\ ret'.called
                     /\ ret'.handed = [i \in 1..RowCount(ret'.file) |-> i]]_vars

\* C4: if the transaction of the batch fails to commit, no row of the batch
\* is in the exams table afterwards and the import reports zero inserted rows.
C4_FailedCommitReportsZero ==
    [][(calls' = calls + 1 /\ ret'.called /\ ret'.use_tx /\ ~ret'.commit_ok)
       => /\ exams' = exams
          /\ ret'.inserted = 0]_vars

\* C5: a failed insert of one row does not end the batch: every row handed to
\* _insert_rows is attempted, the returned count is the number of rows whose
\* insert succeeded, and unless the commit fails exactly those rows are added
\* to the exams table.
C5_BatchContinuesPastFailures ==
    [][(calls' = calls + 1 /\ ret'.called /\ ret'.outcome = "returned")
       => /\ Len(ret'.results) = Len(ret'.handed)
          /\ ret'.inserted = Cardinality({i \in 1..Len(ret'.results) : ret'.results[i]})
          /\ (~ret'.use_tx \/ ret'.commit_ok) => Len(exams') = Len(exams) + ret'.inserted]_vars

\* A batch in which an insert failed and a later one succeeded and was counted.
C5_Witness ==
    /\ ret.file # 0
    /\ ret.called
    /\ ret.outcome = "returned"
    /\ \E i, j \in 1..Len(ret.results) : i < j /\ ~ret.results[i] /\ ret.results[j]
    /\ ret.inserted >= 1
    /\ Len(exams) >= 1

\* C6: import_csv raises only when the file cannot be decoded; every file of
\* the model is decodable (by latin-1 at the latest), whatever its headers and
\* row shapes, so every call returns a (count, periods) pair.
C6_DecodableFilesReturn == ret.file # 0 => ret.outcome = "returned"

\* C7: for a file without a header row import_csv returns (0, []) and leaves
\* the store as it was: no column added, no record inserted, no period
\* registered.
C7_NoHeaderChangesNothing ==
    [][(calls' = calls + 1 /\ Files[ret'.file].header = <<>>)
       => /\ ret'.outcome = "returned"
          /\ ret'.inserted = 0
          /\ ret'.periods = <<>>
          /\ UNCHANGED <<tableColumns, exams, importedPeriods>>]_vars

\* The empty file was offered to a store that already holds columns, records and
\* periods.
C7_Witness ==
    /\ ret.file # 0
    /\ Files[ret.file].header = <<>>
    /\ ret.path = "no_header"
    /\ Len(tableColumns) > 1
    /\ exams # <<>>
    /\ importedPeriods # <<>>

\* C8: import_csv returns inserted count 0 with a non-empty period list only
\* when the periods detected in the file were in the registry before the call.
C8_ZeroWithPeriodsMeansRegistered ==
    [][(calls' = calls + 1 /\ ret'.outcome = "returned" /\ ret'.inserted = 0
        /\ ret'.periods # <<>>)
       => Range(ret'.periods) \subseteq _load_imported_periods(importedPeriods)]_vars

-----------------------------------------------------------------------------
(* Claims about _build_query, checked under QuerySpec *)

LexLeq(a, b) == a[1] < b[1] \/ (a[1] = b[1] /\ a[2] <= b[2])

\* The text filters whose trimmed value is non-empty and whose role resolves.
ActiveFilters ==
    SelectSeq(TextFilters,
              LAMBDA r : Strip(ui.text[r]) # <<>> /\ ui.standard_columns[r] # None)

RangeResolved == ui.standard_columns["year"] # None /\ ui.standard_columns["month"] # None

FromSet == ui.from_year # 0 /\ ui.from_month # <<>>
ToSet == ui.to_year # 0 /\ ui.to_month # <<>>

\* Rows of the exams table with a year and a month, for the resolved columns.
RangeRows ==
    {<< <<ui.standard_columns["year"], Chars(y)>>, <<ui.standard_columns["month"], Chars(m)>> >> :
       y \in {"2022", "2023", "2024", "2025"}, m \in {"1", "5", "6", "7", "12"}}

\* C9: with both columns resolved and both ends of the range set, the query
\* selects a row if and only if (Y1,M1) <= (year,month) <= (Y2,M2) in
\* lexicographic order; with from = to = (Y,M), only rows of exactly that year
\* and month.  (Stated of the WHERE part, for queries with no text filter.)
C9_RangeIsLexicographic ==
    (built.call # "none" /\ RangeResolved /\ FromSet /\ ToSet /\ ActiveFilters = <<>>)
    => \A row \in RangeRows :
         LET year == ParseInt(row[1][2]).val
             month == ParseInt(row[2][2]).val
             from == <<ui.from_year, ParseInt(ui.from_month).val>>
             to == <<ui.to_year, ParseInt(ui.to_month).val>>
         IN WhereHolds(built.query.where, built.query.params, row)
            <=> (LexLeq(from, <<year, month>>) /\ LexLeq(<<year, month>>, to))

\* A query built for a range that spans a year boundary.
C9_Witness ==
    /\ built.call # "none"
    /\ RangeResolved /\ ActiveFilters = <<>>
    /\ ui.from_year = 2023 /\ ui.from_month = Chars("6")
    /\ ui.to_year = 2024 /\ ui.to_month = Chars("6")
    /\ Len(built.query.where) = 2

RECURSIVE ExpectedBinds(_, _)
ExpectedBinds(clauses, filters) ==
    IF clauses = <<>> THEN <<>>
    ELSE CASE Head(clauses).kind = "from" ->
                <<IntParam(ui.from_year), IntParam(ui.from_year), TextParam(ui.from_month)>>
                \o ExpectedBinds(Tail(clauses), filters)
           [] Head(clauses).kind = "to" ->
                <<IntParam(ui.to_year), IntParam(ui.to_year), TextParam(ui.to_month)>>
                \o ExpectedBinds(Tail(clauses), filters)
           [] OTHER ->
                IF filters = <<>> THEN <<[t |-> "missing", v |-> <<>>]>>
                ELSE <<TextParam(Strip(ui.text[Head(filters)]))>>
                     \o ExpectedBinds(Tail(clauses), Tail(filters))

\* C10: the query has an equality clause for a text filter if and only if its
\* trimmed value is non-empty and its role resolves to a column; it has a range
\* clause only if both the year and the month column resolve; and the bind
\* values are one per placeholder, in the order of the placeholders.
C10_ClausesAndBinds ==
    built.call # "none"
    => LET where == built.query.where
           eq == SelectSeq(where, LAMBDA c : c.kind = "eq")
           range == SelectSeq(where, LAMBDA c : c.kind # "eq")
       IN /\ Len(eq) = Len(ActiveFilters)
          /\ \A k \in 1..Len(eq) : eq[k].col = ui.standard_columns[ActiveFilters[k]]
          /\ range # <<>> => RangeResolved
          /\ where = range \o eq
          /\ built.query.params = ExpectedBinds(where, ActiveFilters)

\* A query with both range clauses and several text clauses, one text filter
\* being left out because its value is blank.
C10_Witness ==
    /\ built.call # "none"
    /\ Len(built.query.where) >= 4
    /\ Len(built.query.params) >= 8
    /\ \E r \in Range(TextFilters) :
         /\ ui.text[r] # <<>> /\ Strip(ui.text[r]) = <<>>
         /\ ui.standard_columns[r] # None

-----------------------------------------------------------------------------
(* Claims about the schema and the period registry, checked under Spec *)

NoDuplicates(seq) == \A i, j \in 1..Len(seq) : seq[i] = seq[j] => i = j

\* seq starts with the elements of start, in the same positions.
Extends(seq, start) ==
    Len(seq) >= Len(start) /\ SubSeq(seq, 1, Len(start)) = start

\* The names import_csv passed to ensure_columns during the call on file f:
\* the header as utf-8-sig decoded it when that attempt got as far, and the
\* header of the decoding that was used.
DesiredColumns(f) ==
    IF DecodedRead(f).no_header THEN {}
    ELSE Range(DecodedRead(f).sanitized_headers)
         \cup (IF Files[f].utf8 = "fail_rows" /\ ~Files[f].read["utf8"].no_header
               THEN Range(Files[f].read["utf8"].sanitized_headers) ELSE {})

\* C12: across imports the exams table keeps every column it has, in place;
\* after ensure_columns(desired) it has every desired name; the column id stays
\* the single first column; and calling ensure_columns again with the same
\* names changes nothing.
C12_ColumnsNeverShrink ==
    [][(calls' = calls + 1)
       => /\ Extends(tableColumns', tableColumns)
          /\ DesiredColumns(ret'.file) \subseteq Range(tableColumns')
          /\ tableColumns'[1] = Chars("id")
          /\ NoDuplicates(tableColumns')
          /\ ~DecodedRead(ret'.file).no_header
               => ensure_columns(tableColumns', DecodedRead(ret'.file).sanitized_headers)
                  = tableColumns']_vars

\* An import added its columns to a table that kept the columns of an earlier
\* file with other headers.
C12_Witness ==
    /\ ret.file = 6
    /\ Chars("mes") \in Range(tableColumns)
    /\ Chars("num_aptos") \in Range(tableColumns)
    /\ Len(tableColumns) >= 5

\* C13: the period registry never holds a (year, month) pair twice and never
\* loses a row; a call adds only pairs that were absent, and registering a pair
\* that is present raises nothing.
C13_RegistryUniqueAppendOnly ==
    [][(calls' = calls + 1)
       => /\ NoDuplicates(importedPeriods')
          /\ Extends(importedPeriods', importedPeriods)
          /\ \A i \in (Len(importedPeriods) + 1)..Len(importedPeriods') :
               importedPeriods'[i] \notin Range(importedPeriods)]_vars

\* A call registered a period list that names the same pair twice, and
\* returned.
C13_Witness ==
    /\ ret.file # 0
    /\ ret.outcome = "returned"
    /\ ret.called
    /\ ~NoDuplicates(ret.periods)
    /\ Range(ret.periods) \subseteq Range(importedPeriods)

\* C14: the period list import_csv returns is sorted ascending and without
\* duplicates, whether it comes from the rows or from the file name.
C14_ReturnedPeriodsSorted ==
    (ret.file # 0 /\ ret.outcome = "returned")
    => \A i, j \in 1..Len(ret.periods) :
         i < j => PeriodLess(ret.periods[i], ret.periods[j])

\* C17: an import that persists no new exam record leaves the period registry
\* as it was.
C17_NoRowsNoRegistration ==
    [][(calls' = calls + 1 /\ exams' = exams)
       => importedPeriods' = importedPeriods]_vars

-----------------------------------------------------------------------------
(* sanitize_column on its own: every header of at most MaxHeaderLen characters
   over HeaderAlphabet is offered to it. *)

MaxHeaderLen == 3

HeaderAlphabet == {"A", "o", "ñ", "É", "1", " ", "_", "-"}

Headers == UNION {[1..n -> HeaderAlphabet] : n \in 0..MaxHeaderLen}

SanitizeInit ==
    /\ tableColumns = <<Chars("id")>>
    /\ exams = <<>>
    /\ importedPeriods = <<>>
    /\ calls = 0
    /\ ui = Widgets(QueryWindows[1].standard_columns)
    /\ built = NoQuery
    /\ view = NoView
    /\ collect = Idle
    /\ \E header \in Headers : ret = [call |-> "none", header |-> header]

SanitizeColumn ==
    /\ ret.call = "none"
    /\ ret' = [call |-> "sanitize_column", header |-> ret.header,
               result |-> sanitize_column(ret.header)]
    /\ UNCHANGED <<tableColumns, exams, importedPeriods, calls, ui, built, view, collect>>

SanitizeNext == SanitizeColumn
SanitizeSpec == SanitizeInit /\ [][SanitizeNext]_vars

AsciiWordChars == Range(UpperAscii) \cup Range(LowerAscii) \cup Range(Digits) \cup {"_"}

\* C16: for every raw header, sanitize_column returns a non-empty identifier of
\* ASCII letters, digits and underscores that does not start with a digit.
C16_SanitizedIsAsciiIdentifier ==
    ret.call = "sanitize_column"
    => /\ ret.result # <<>>
       /\ Range(ret.result) \subseteq AsciiWordChars
       /\ ~IsDigit(ret.result[1])

-----------------------------------------------------------------------------
(* Claims about grouping, checked under QuerySpec *)

\* C19: with a grouping other than None selected, the built query has a
\* non-empty GROUP BY column list and selects those columns, in order, before
\* the aggregates, whatever the standard column map resolves.
C19_GroupByNeverEmpty ==
    (built.call # "none" /\ ui.group_by # "None")
    => LET q == built.query
       IN /\ q.group_by # <<>>
          /\ Len(q.select) > Len(q.group_by)
          /\ \A i \in 1..Len(q.group_by) :
               q.select[i].kind = "col" /\ q.select[i].col = q.group_by[i]
          /\ \A i \in (Len(q.group_by) + 1)..Len(q.select) : q.select[i].kind # "col"

-----------------------------------------------------------------------------
(* ui/main_window_ui.py: the window's event handlers.  The window opens on an
   empty store; the user imports files, changes the grouping and the column
   check boxes, applies the filters, clicks header sections and exports.  The
   rows of an insert all succeed here. *)

\* The files the user imports: the scenario file, and a file without year and
\* month columns.
WindowFiles == {1, 6}

\* The entries of the group_by box the user picks.
WindowGroups == {"None", "Year", "Month and Year"}

\* The check boxes the user toggles.
ToggledKeys == {"province"}

\* The header sections the user clicks are 0..MaxSection.
MaxSection == 2

\* The window is followed through at most MaxImports imports.
MaxImports == 1

SortOrders == {"ASC", "DESC"}

\* Rows between two yields of the collection loop: (row + 1) % 1000 == 0.
YieldEvery == 1000

\* CAST("col" AS INTEGER) of every record, NULLs left out.
CastValues(records, col) ==
    {c.v : c \in {x \in {CastInteger(DictGet(records[i], col, None)) : i \in DOMAIN records} :
                    ~x.null}}

MinOf(S) == CHOOSE x \in S : \A y \in S : x <= y
MaxOf(S) == CHOOSE x \in S : \A y \in S : y <= x

\* _refresh_year_month_ranges: the year boxes take MIN and MAX of the year
\* column, the month boxes the first and the last of the months 1..12 found.
SetYearRange(w, years) ==
    IF years = {} THEN w
    ELSE [w EXCEPT !.from_year = MinOf(years), !.to_year = MaxOf(years)]

SetMonthRange(w, years, months) ==
    IF years = {} \/ months = {} THEN w
    ELSE [w EXCEPT !.from_month = IntText(MinOf(months)),
                   !.to_month = IntText(MaxOf(months))]

_refresh_year_month_ranges(w, records) ==
    LET year_col == w.standard_columns["year"]
        month_col == w.standard_columns["month"]
    IN The({SetMonthRange(SetYearRange(w, years), years, months) :
              years \in {IF year_col = None THEN {} ELSE CastValues(records, year_col)},
              months \in {IF month_col = None THEN {}
                          ELSE {m \in CastValues(records, month_col) : 1 <= m /\ m <= 12}}})

\* _refresh_completers: of the widgets a query reads, it empties the exam type
\* box and refreshes the year and month ranges.
_refresh_completers(w, records) ==
    _refresh_year_month_ranges([w EXCEPT !.text["exam_type"] = <<>>], records)

\* The window after __init__.
WindowInit ==
    /\ tableColumns = <<Chars("id")>>
    /\ exams = <<>>
    /\ importedPeriods = <<>>
    /\ ret = NoCall
    /\ calls = 0
    /\ ui = _refresh_completers(Widgets(find_standard_columns(<<Chars("id")>>)), <<>>)
    /\ \E a \in {Applied(ui, tableColumns, exams)} :
         /\ built = a.built
         /\ view = a.view
    /\ collect = Idle

\* _import_csv with a file chosen: import_csv, then standard_columns is computed
\* again, the completers are refreshed and the filters applied.  A call
\* that raises leaves the window as it was.
ImportCsvHandler(f, env) ==
    /\ calls < MaxImports
    /\ ImportCall(f, env)
    /\ IF ret'.outcome = "returned"
       THEN \E w \in {_refresh_completers(
                        [ui EXCEPT !.standard_columns = find_standard_columns(tableColumns')],
                        exams')} :
              /\ ui' = w
              /\ \E a \in {Applied(w, tableColumns', exams')} :
                   /\ built' = a.built
                   /\ view' = a.view
       ELSE UNCHANGED <<ui, built, view>>
    /\ UNCHANGED collect

\* The user picks another entry of the group_by box.
SetGroupBy(group) ==
    /\ group # ui.group_by
    /\ ui' = [ui EXCEPT !.group_by = group]
    /\ UNCHANGED <<tableColumns, exams, importedPeriods, ret, calls, built, view, collect>>

\* The user toggles a column check box.
ToggleColumn(key) ==
    /\ ui' = [ui EXCEPT !.column_checks =
                IF key \in @ THEN @ \ {key} ELSE @ \cup {key}]
    /\ UNCHANGED <<tableColumns, exams, importedPeriods, ret, calls, built, view, collect>>

\* _on_sort_changed for a click on a section of the header, which has one section
\* per field of the model; it returns at once when current_columns is empty or
\* shorter than the section index.  The model takes the new query;
\* current_columns stays.
OnSortChanged(logical_index, order_dir) ==
    /\ logical_index < Len(view.fields)
    /\ view.current_columns # <<>>
    /\ ~(logical_index >= Len(view.current_columns))
    /\ \E r \in {RunQuery(ui, tableColumns, exams,
                          view.current_columns[logical_index + 1], order_dir)} :
          /\ built' = [call |-> "_on_sort_changed", query |-> r.query]
          /\ view' = [view EXCEPT !.fields = r.result.fields, !.rows = r.result.rows]
    /\ UNCHANGED <<tableColumns, exams, importedPeriods, ret, calls, ui, collect>>

\* str(self.model.data(self.model.index(row, col))): the model is read when the
\* row is collected; an index the model does not have gives None.
CellText(model_rows, row, col) ==
    IF row <= Len(model_rows) /\ col <= Len(model_rows[row])
    THEN Str(model_rows[row][col]) ELSE Chars("None")

\* The row after which the loop yields next: (row + 1) % 1000 == 0 or
\* row + 1 == row_count.
NextYield(row, row_count) ==
    CHOOSE k \in (row + 1)..row_count :
      /\ k % YieldEvery = 0 \/ k = row_count
      /\ \A j \in (row + 1)..(k - 1) : ~(j % YieldEvery = 0 \/ j = row_count)

\* The loop of _collect_table_data from the current row to its next yield.
CollectToYield(frame, model_rows) ==
    LET k == NextYield(frame.row, frame.row_count)
    IN [frame EXCEPT
          !.pc = "processEvents",
          !.row = k,
          !.rows = @ \o [i \in 1..(k - frame.row) |->
                           [c \in 1..frame.column_count |->
                              CellText(model_rows, frame.row + i, c)]]]

\* An export with a path chosen enters _collect_table_data.  The model has
\* fetched all its rows (canFetchMore() is false for the results of this model,
\* so the first loop does not run); row_count and column_count are read once.
\* With no row the function returns without yielding.
ExportStart ==
    /\ collect.pc = "idle"
    /\ collect' =
         IF view.rows = <<>>
         THEN Idle
         ELSE CollectToYield([Idle EXCEPT !.row_count = Len(view.rows),
                                          !.column_count = Len(view.fields)],
                             view.rows)
    /\ UNCHANGED <<tableColumns, exams, importedPeriods, ret, calls, ui, built, view>>

\* QApplication.processEvents() returns: the loop goes on to its next yield, or
\* the function returns after the last row.
CollectResume ==
    /\ collect.pc = "processEvents"
    /\ collect' =
         IF collect.row = collect.row_count THEN Idle
         ELSE CollectToYield(collect, view.rows)
    /\ UNCHANGED <<tableColumns, exams, importedPeriods, ret, calls, ui, built, view>>

\* The events the dispatcher delivers, from the main loop and from
\* processEvents() alike: no handler looks at whether an export is running, and
\* no widget is disabled while one runs.
WindowNext ==
    \/ \E f \in WindowFiles : \E n \in 0..Len(Files[f].rows) :
         /\ calls < MaxImports
         /\ n = BatchSize(f)
         /\ ImportCsvHandler(f, [tx |-> TRUE, commit |-> TRUE, ok |-> 1..n])
    \/ \E group \in WindowGroups : SetGroupBy(group)
    \/ \E key \in ToggledKeys : ToggleColumn(key)
    \/ ApplyFilters
    \/ \E logical_index \in 0..MaxSection, order_dir \in SortOrders :
         OnSortChanged(logical_index, order_dir)
    \/ ExportStart
    \/ CollectResume

WindowSpec == WindowInit /\ [][WindowNext]_vars

-----------------------------------------------------------------------------
(* Claims about the window, checked under WindowSpec *)

\* The sum of the integer values of a column over records; a record without a
\* value adds nothing.
RECURSIVE ColumnSum(_, _)
ColumnSum(records, col) ==
    IF records = <<>> THEN 0
    ELSE LET value == CastInteger(DictGet(Head(records), col, None))
         IN (IF value.null THEN 0 ELSE value.v) + ColumnSum(Tail(records), col)

\* The row the grouped result is to hold for the records of one group: the
\* values of the group, the sum of passes, the sum of fails, and the total.
GroupTotals(key, members) ==
    LET aptos_col == ui.standard_columns["num_aptos"]
        no_aptos_col == ui.standard_columns["num_no_aptos"]
    IN key
       \o (IF aptos_col # None THEN <<IntText(ColumnSum(members, aptos_col))>> ELSE <<>>)
       \o (IF no_aptos_col # None THEN <<IntText(ColumnSum(members, no_aptos_col))>> ELSE <<>>)
       \o (IF aptos_col # None /\ no_aptos_col # None
           THEN <<IntText(ColumnSum(members, aptos_col) + ColumnSum(members, no_aptos_col))>>
           ELSE <<IntText(Len(members))>>)

\* C11: with a grouping selected, the result of the built query has exactly one
\* row per distinct value of the group-by columns among the filtered records,
\* and that row carries the sum of the pass column, the sum of the fail column
\* and the total: pass plus fail when both columns resolve, the number of
\* records of the group otherwise.
C11_OneRowPerGroup ==
    (built.call # "none" /\ built.query.grouped)
    => LET group_by == built.query.group_by
           filtered == Matching(built.query, exams)
           keys == {GroupKey(group_by, filtered[i]) : i \in DOMAIN filtered}
           Members(key) == SelectSeq(filtered, LAMBDA r : GroupKey(group_by, r) = key)
       IN /\ Len(view.rows) = Cardinality(keys)
          /\ Range(view.rows) = {GroupTotals(key, Members(key)) : key \in keys}

\* C18: the ORDER BY column of every query built by _on_sort_changed is one of
\* the columns or aggregate aliases that same query selects, also when the
\* grouping or the column check boxes were changed after the filters were last
\* applied.
C18_OrderByIsOutputColumn ==
    built.call = "_on_sort_changed"
    => built.query.order_by \in Range(FieldNames(built.query.select, tableColumns))

\* C15: while _collect_table_data is at a processEvents() call, no handler
\* dispatched from it imports a file or executes a query again: the store, the
\* last query and the model stay as they are until the collection has returned.
C15_NoHandlerDuringCollection ==
    [][collect.pc = "processEvents"
       => /\ UNCHANGED <<tableColumns, exams, importedPeriods, calls>>
          /\ UNCHANGED <<built, view>>]_vars

====
